---- MODULE Spec2Model ----
(***************************************************************************)
(* Model of the single-core Processor (os/src/task/processor.rs) and the   *)
(* process-control syscalls (os/src/syscall/process.rs).                   *)
(*                                                                         *)
(* Control flows: the idle flow (run_tasks) and one kernel flow per task.  *)
(* Exactly one flow owns the CPU (cpu).  Control leaves a flow only at     *)
(* __switch; kernel code runs with interrupts masked, so every action is   *)
(* one kernel segment from its entry to the next __switch or return to     *)
(* user mode.  A segment is the sequential composition of the operations   *)
(* of the source on the kernel-state record K.                             *)
(***************************************************************************)
EXTENDS Integers, Sequences, FiniteSets, TLC

\* ---------------------------------------------------------------- bounds
NumTasks == 2
MaxTime == 1
MaxTraps == 2
\* The microseconds the timer source advances by at a time.
TickUs == 1000500

\* ------------------------------------------------------------- constants
PAGE_SIZE == 4096
PROT_MASK == 7
None == 0
IdleFlow == 0

Tasks == 1..NumTasks
\* The initial process: the one task boot adds before run_tasks starts.
InitProc == 1
NoPanic == "none"
SyscallIds == {"exit", "yield", "get_time", "task_info", "mmap", "munmap", "sbrk"}
\* Syscall arguments: aligned and misaligned starts; prot zero, valid, and with
\* bit 3 set (alone and together with low bits).
StartVals == {1, PAGE_SIZE}
LenVals == {PAGE_SIZE}
ProtVals == {0, PROT_MASK, PROT_MASK + 1, PROT_MASK + 2}
DelegateResults == {-1, 0}
\* size_of::<usize>(): the distance between the two fields of a TimeVal.
WORD == 8
\* User pointers handed to sys_get_time and sys_task_info: the start of a page,
\* and the last word of a page (the record then runs past the page's end).
PtrVals == {PAGE_SIZE, 2 * PAGE_SIZE - WORD}
\* Every task's heap starts here, and so does its program break.
HeapBottom == 4 * PAGE_SIZE
SbrkSizes == {PAGE_SIZE, -PAGE_SIZE}
ZeroTimes == [i \in SyscallIds |-> 0]

VARIABLES
    cpu,            \* the flow that owns the CPU: IdleFlow or a task
    current,        \* Processor.current: None or a task
    idle_task_cx,   \* Processor.idle_task_cx: "zero", "saved" by run_tasks' switch,
                    \* or "loaded" (resumed by schedule's switch since it was saved)
    task_status,    \* TCB inner task_status
    start_time,     \* TCB inner start_time
    syscall_times,  \* TCB inner syscall_times
    program_brk,    \* TCB inner program_brk
    pc,             \* where each task's flow stands (its task_cx when suspended)
    ready_queue,    \* the task manager's ready queue
    proc_held,      \* PROCESSOR's UPSafeCell is borrowed
    tcb_held,       \* the tasks whose inner UPSafeCell is borrowed
    panicked,       \* NoPanic, or the message of the panic that halted the kernel
    at_switch,      \* the most recent __switch call: the guards held at it and
                    \* the context it loaded
    ev,             \* the events of the most recent kernel segment, in order
    log,            \* the warnings the kernel has logged
    last,           \* what the most recent kernel segment was and returned
    time,           \* the timer source, in microseconds
    invoked,        \* per task and syscall id: entries through the trap path
    interrupts      \* timer interrupts taken so far

vars == <<cpu, current, idle_task_cx, task_status, start_time, syscall_times,
          program_brk, pc,
          ready_queue, proc_held, tcb_held, panicked, at_switch, ev, log, last,
          time, invoked, interrupts>>

\* The kernel state a segment works on.
K ==
    [cpu |-> cpu, current |-> current, idle_task_cx |-> idle_task_cx,
     task_status |-> task_status, start_time |-> start_time,
     syscall_times |-> syscall_times, program_brk |-> program_brk, pc |-> pc,
     ready_queue |-> ready_queue,
     proc_held |-> proc_held, tcb_held |-> tcb_held, panicked |-> panicked,
     at_switch |-> at_switch, ev |-> ev, log |-> log, last |-> last,
     time |-> time]

NoSwitch == [by |-> "none", proc |-> FALSE, tcb |-> {}, loaded |-> "none"]

Observation(op, task, args) ==
    [op |-> op, task |-> task, args |-> args, ret |-> <<>>, status |-> "",
     times |-> <<>>, delegate |-> <<>>, write |-> <<>>]

\* The state a segment named op starts from.
Enter(op, task, args) ==
    [K EXCEPT !.ev = <<>>, !.last = Observation(op, task, args)]

Live(k) == k.panicked = NoPanic

Event(k, e) == IF Live(k) THEN [k EXCEPT !.ev = Append(@, e)] ELSE k

Panic(k, msg) == IF Live(k) THEN [k EXCEPT !.panicked = msg] ELSE k

Return(k, v) == IF Live(k) THEN [k EXCEPT !.last.ret = <<v>>] ELSE k

\* Statements in sequence: F continues from the state k that the statements
\* before it have produced.  k is evaluated once and F works on its value, as
\* each statement of the code runs once.
Then(k, F(_)) == CHOOSE r \in {F(x) : x \in {k}} : TRUE

\* warn!(..) of run_tasks.
NoTasksWarning == "no tasks available in run_tasks"

Warn(k) ==
    IF Live(k) THEN Event([k EXCEPT !.log = @ \cup {NoTasksWarning}], "warn") ELSE k

\* -------------------------------------------------- UPSafeCell (sync)
ProcessorExclusiveAccess(k) ==
    IF ~Live(k) THEN k
    ELSE IF k.proc_held THEN Panic(k, "PROCESSOR already borrowed")
    ELSE Event([k EXCEPT !.proc_held = TRUE], "PROCESSOR.borrow")

DropProcessor(k) ==
    IF ~Live(k) THEN k
    ELSE Event([k EXCEPT !.proc_held = FALSE], "PROCESSOR.drop")

InnerExclusiveAccess(k, t) ==
    IF ~Live(k) THEN k
    ELSE IF t \in k.tcb_held THEN Panic(k, "TCB inner already borrowed")
    ELSE Event([k EXCEPT !.tcb_held = @ \cup {t}], "inner.borrow")

DropInner(k, t) ==
    IF ~Live(k) THEN k
    ELSE Event([k EXCEPT !.tcb_held = @ \ {t}], "inner.drop")

\* ------------------------------------------------------------- timer
get_time_us(k) == k.time

\* ----------------------------------------------------------- __switch
\* The switch of run_tasks saving the idle flow's state somewhere else than in
\* idle_task_cx.
SwitchToTask_NoSave(k, t) ==
    IF ~Live(k) THEN k
    ELSE Event([k EXCEPT !.at_switch = [by |-> "run_tasks", proc |-> k.proc_held,
                                        tcb |-> k.tcb_held, loaded |-> k.pc[t]],
                         !.cpu = t], "__switch")

\* __switch(idle_task_cx_ptr, next_task_cx_ptr) of run_tasks: the idle flow's
\* state is saved into idle_task_cx and the task's flow gets the CPU.
SwitchToTask(k, t) ==
    IF ~Live(k) THEN k
    ELSE Event([k EXCEPT !.idle_task_cx = "saved",
                         !.at_switch = [by |-> "run_tasks", proc |-> k.proc_held,
                                        tcb |-> k.tcb_held, loaded |-> k.pc[t]],
                         !.cpu = t], "__switch")

\* __switch(switched_task_cx_ptr, idle_task_cx_ptr) of schedule: the task's flow
\* is saved (at resume point `at`) and the idle flow gets the CPU.
SwitchToIdle(k, t, at) ==
    IF ~Live(k) THEN k
    ELSE IF k.idle_task_cx = "zero" THEN Panic(k, "switch into a zero context")
    ELSE Event([k EXCEPT !.pc[t] = at,
                         !.idle_task_cx = "loaded",
                         !.at_switch = [by |-> "schedule", proc |-> k.proc_held,
                                        tcb |-> k.tcb_held,
                                        loaded |-> k.idle_task_cx],
                         !.cpu = IdleFlow], "__switch")

\* ------------------------------------------------------- task manager
FetchTaskResult(k) == IF k.ready_queue = <<>> THEN None ELSE Head(k.ready_queue)

FetchTask(k) ==
    IF ~Live(k) \/ k.ready_queue = <<>> THEN k
    ELSE [k EXCEPT !.ready_queue = Tail(@)]

AddTask(k, t) == IF Live(k) THEN [k EXCEPT !.ready_queue = Append(@, t)] ELSE k

\* ------------------------------------------------------------ TCB inner
SetTaskStatus(k, t, s) == IF Live(k) THEN [k EXCEPT !.task_status[t] = s] ELSE k

SetStartTime(k, t, v) == IF Live(k) THEN [k EXCEPT !.start_time[t] = v] ELSE k

SetCurrent(k, v) ==
    IF Live(k) THEN Event([k EXCEPT !.current = v], "current.set") ELSE k

\* The flow of task t continues from its saved task_cx once it is switched into:
\* a fresh task goes to user mode through trap_return, a task suspended in
\* sys_yield returns 0 from it (process.rs:43), a preempted task returns from
\* the trap handler, and a task whose context was saved by the exit path is
\* back in sys_exit after exit_current_and_run_next() (process.rs:36).
SysYieldResult == 0

\* sys_exit after exit_current_and_run_next() has returned.
SysExitReturned(k) == Panic(k, "Unreachable in sys_exit!")

TaskResume(k, t) ==
    IF ~Live(k) \/ t = IdleFlow \/ k.cpu # t THEN k
    ELSE IF k.pc[t] = "in_yield"
         THEN [k EXCEPT !.pc[t] = "user",
                        !.last = [Observation("sys_yield", t, <<>>)
                                      EXCEPT !.ret = <<SysYieldResult>>]]
    ELSE IF k.pc[t] = "exited"
         THEN SysExitReturned([k EXCEPT !.pc[t] = "user"])
    ELSE [k EXCEPT !.pc[t] = "user"]

\* run_tasks that does not mark the fetched task Running.
RunTasksIteration_NoRunning(k) ==
    Then(ProcessorExclusiveAccess(k), LAMBDA k1 :
    LET task == FetchTaskResult(k1) IN
    Then(FetchTask(k1), LAMBDA k2 :
    IF task = None
    THEN DropProcessor(Warn(k2))
    ELSE Then(InnerExclusiveAccess(k2, task), LAMBDA k3 :
         Then(k3, LAMBDA k4 :
         Then(IF k4.start_time[task] = 0
              THEN SetStartTime(k4, task, get_time_us(k4))
              ELSE k4, LAMBDA k5 :
         Then(DropInner(k5, task), LAMBDA k6 :
         Then(SetCurrent(k6, task), LAMBDA k7 :
         Then(DropProcessor(k7), LAMBDA k8 :
         SwitchToTask(k8, task)))))))))

\* run_tasks that switches without dropping its Processor guard.
RunTasksIteration_HoldsProcessor(k) ==
    Then(ProcessorExclusiveAccess(k), LAMBDA k1 :
    LET task == FetchTaskResult(k1) IN
    Then(FetchTask(k1), LAMBDA k2 :
    IF task = None
    THEN DropProcessor(Warn(k2))
    ELSE Then(InnerExclusiveAccess(k2, task), LAMBDA k3 :
         Then(SetTaskStatus(k3, task, "Running"), LAMBDA k4 :
         Then(IF k4.start_time[task] = 0
              THEN SetStartTime(k4, task, get_time_us(k4))
              ELSE k4, LAMBDA k5 :
         Then(DropInner(k5, task), LAMBDA k6 :
         Then(SetCurrent(k6, task), LAMBDA k7 :
         Then(k7, LAMBDA k8 :
         SwitchToTask(k8, task)))))))))

\* run_tasks that clears the task's syscall counters at every dispatch.
RunTasksIteration_ResetsTimes(k) ==
    Then(ProcessorExclusiveAccess(k), LAMBDA k1 :
    LET task == FetchTaskResult(k1) IN
    Then(FetchTask(k1), LAMBDA k2 :
    IF task = None
    THEN DropProcessor(Warn(k2))
    ELSE Then(InnerExclusiveAccess(k2, task), LAMBDA k3 :
         Then(SetTaskStatus(k3, task, "Running"), LAMBDA k4 :
         Then(IF k4.start_time[task] = 0
              THEN SetStartTime(k4, task, get_time_us(k4))
              ELSE k4, LAMBDA k5 :
         Then(DropInner([k5 EXCEPT !.syscall_times[task] = ZeroTimes], task),
              LAMBDA k6 :
         Then(SetCurrent(k6, task), LAMBDA k7 :
         Then(DropProcessor(k7), LAMBDA k8 :
         SwitchToTask(k8, task)))))))))

\* run_tasks that unwraps what fetch_task returns.
RunTasksIteration_UnwrapsFetch(k) ==
    Then(ProcessorExclusiveAccess(k), LAMBDA k1 :
    LET task == FetchTaskResult(k1) IN
    Then(FetchTask(k1), LAMBDA k2 :
    IF task = None
    THEN Panic(k2, "unwrap on None")
    ELSE Then(InnerExclusiveAccess(k2, task), LAMBDA k3 :
         Then(SetTaskStatus(k3, task, "Running"), LAMBDA k4 :
         Then(IF k4.start_time[task] = 0
              THEN SetStartTime(k4, task, get_time_us(k4))
              ELSE k4, LAMBDA k5 :
         Then(DropInner(k5, task), LAMBDA k6 :
         Then(SetCurrent(k6, task), LAMBDA k7 :
         Then(DropProcessor(k7), LAMBDA k8 :
         SwitchToTask(k8, task)))))))))

\* ------------------------------------------------------------ run_tasks
\* One iteration of the loop of run_tasks, up to its __switch (or to the end
\* of the iteration when no task is available).
RunTasksIteration(k) ==
    Then(ProcessorExclusiveAccess(k), LAMBDA k1 :
    LET task == FetchTaskResult(k1) IN
    Then(FetchTask(k1), LAMBDA k2 :
    IF task = None
    THEN DropProcessor(Warn(k2))
    ELSE Then(InnerExclusiveAccess(k2, task), LAMBDA k3 :
         Then(SetTaskStatus(k3, task, "Running"), LAMBDA k4 :
         Then(IF k4.start_time[task] = 0
              THEN SetStartTime(k4, task, get_time_us(k4))
              ELSE k4, LAMBDA k5 :
         Then(DropInner(k5, task), LAMBDA k6 :
         Then(SetCurrent(k6, task), LAMBDA k7 :
         Then(DropProcessor(k7), LAMBDA k8 :
         SwitchToTask(k8, task)))))))))

\* ------------------------------------------- TaskControlBlock methods
\* Each takes the TCB's inner exclusive access for the read or write and
\* releases it before returning.
TaskStatusOf(k, t) ==
    LET k1 == InnerExclusiveAccess(k, t)
        k2 == IF Live(k1) THEN [k1 EXCEPT !.last.status = k1.task_status[t]] ELSE k1
    IN  DropInner(k2, t)

TaskSyscallTimes(k, t) ==
    LET k1 == InnerExclusiveAccess(k, t)
        k2 == IF Live(k1) THEN [k1 EXCEPT !.last.times = k1.syscall_times[t]] ELSE k1
    IN  DropInner(k2, t)

TaskAddSyscallTimes(k, t, id) ==
    LET k1 == InnerExclusiveAccess(k, t)
        k2 == IF Live(k1) THEN [k1 EXCEPT !.syscall_times[t][id] = @ + 1] ELSE k1
    IN  DropInner(k2, t)

TaskStartTime(k, t) ==
    LET k1 == InnerExclusiveAccess(k, t)
        k2 == Return(k1, k1.start_time[t])
    IN  DropInner(k2, t)

\* The mapping operations of the task's address space: opaque to this core, so
\* the result res is whatever the address space answers.
TaskMmap(k, t, start, len, prot, res) ==
    LET k1 == InnerExclusiveAccess(k, t)
        k2 == IF ~Live(k1) THEN k1
              ELSE Return([k1 EXCEPT !.last.delegate =
                               <<[op |-> "mmap", task |-> t,
                                  args |-> <<start, len, prot>>, res |-> res]>>],
                          res)
    IN  DropInner(k2, t)

TaskMunmap(k, t, start, len, res) ==
    LET k1 == InnerExclusiveAccess(k, t)
        k2 == IF ~Live(k1) THEN k1
              ELSE Return([k1 EXCEPT !.last.delegate =
                               <<[op |-> "munmap", task |-> t,
                                  args |-> <<start, len>>, res |-> res]>>],
                          res)
    IN  DropInner(k2, t)

\* The token of the task's address space: one address space per task.
UserToken(t) == t

TaskGetUserToken(k, t) ==
    LET k1 == InnerExclusiveAccess(k, t)
        k2 == Return(k1, UserToken(t))
    IN  DropInner(k2, t)

\* inner_exclusive_access().get_trap_cx(): the guard is a temporary of the
\* statement; the reference to the trap context outlives it.
TaskGetTrapCx(k, t) ==
    LET k1 == InnerExclusiveAccess(k, t)
        k2 == Return(k1, <<"trap_cx", t>>)
    IN  DropInner(k2, t)

\* change_program_brk(size): moves the break by size and answers the break it
\* had before (ret <<old>>); fails (ret <<>>, the Option's None) when the new
\* break would lie below the bottom of the heap.
TaskChangeProgramBrk(k, t, size) ==
    LET k1 == InnerExclusiveAccess(k, t)
        old_break == k1.program_brk[t]
        new_brk == old_break + size
        k2 == IF ~Live(k1) THEN k1
              ELSE IF new_brk < HeapBottom THEN [k1 EXCEPT !.last.ret = <<>>]
              ELSE Return([k1 EXCEPT !.program_brk[t] = new_brk], old_break)
    IN  DropInner(k2, t)

\* ---------------------------------------------------- impl Processor
\* take_current that clones the task and leaves it in the slot.
ProcessorTakeCurrent_Clones(k) == Return(k, k.current)

ProcessorTakeCurrent(k) ==
    IF ~Live(k) THEN k
    ELSE Event(Return([k EXCEPT !.current = None], k.current), "current.take")

\* current() that moves the task out of the slot instead of cloning it.
ProcessorCurrent_Takes(k) == Return([k EXCEPT !.current = None], k.current)

ProcessorCurrent(k) == Return(k, k.current)

ProcessorMmapCurrentTask(k, start, len, prot, res) ==
    IF k.current = None THEN Return(k, -1)
    ELSE TaskMmap(k, k.current, start, len, prot, res)

ProcessorMunmapCurrentTask(k, start, len, res) ==
    IF k.current = None THEN Return(k, -1)
    ELSE TaskMunmap(k, k.current, start, len, res)

\* Option::unwrap of self.current()
UnwrapCurrent(k) ==
    IF k.current = None THEN Panic(k, "unwrap on None") ELSE k

ProcessorCurrentStatus(k) ==
    LET k1 == UnwrapCurrent(k)
    IN  IF Live(k1) THEN TaskStatusOf(k1, k1.current) ELSE k1

ProcessorSyscallTimes(k) ==
    LET k1 == UnwrapCurrent(k)
    IN  IF Live(k1) THEN TaskSyscallTimes(k1, k1.current) ELSE k1

\* add_syscall_times that forwards to the task's syscall_times() instead.
ProcessorAddSyscallTimes_ReadsOnly(k, id) ==
    LET k1 == UnwrapCurrent(k)
    IN  IF Live(k1) THEN TaskSyscallTimes(k1, k1.current) ELSE k1

ProcessorAddSyscallTimes(k, id) ==
    LET k1 == UnwrapCurrent(k)
    IN  IF Live(k1) THEN TaskAddSyscallTimes(k1, k1.current, id) ELSE k1

ProcessorStartTime(k) ==
    LET k1 == UnwrapCurrent(k)
    IN  IF Live(k1) THEN TaskStartTime(k1, k1.current) ELSE k1

\* ------------------------------------ the module's functions on PROCESSOR
\* PROCESSOR.exclusive_access().f(): the guard is a temporary of the statement
\* and is dropped when the statement ends.
TakeCurrentTask(k) == DropProcessor(ProcessorTakeCurrent(ProcessorExclusiveAccess(k)))

CurrentTask(k) == DropProcessor(ProcessorCurrent(ProcessorExclusiveAccess(k)))

MmapCurrentTask(k, start, len, prot, res) ==
    DropProcessor(ProcessorMmapCurrentTask(ProcessorExclusiveAccess(k), start, len, prot, res))

MunmapCurrentTask(k, start, len, res) ==
    DropProcessor(ProcessorMunmapCurrentTask(ProcessorExclusiveAccess(k), start, len, res))

\* current_status that releases the Processor guard before it asks the task.
CurrentStatus_ReleasesFirst(k) ==
    LET k1 == CurrentTask(k)
        task == k1.last.ret[1]
    IN  IF ~Live(k1) THEN k1
        ELSE IF task = None THEN Panic(k1, "unwrap on None")
        ELSE TaskStatusOf(k1, task)

CurrentStatus(k) == DropProcessor(ProcessorCurrentStatus(ProcessorExclusiveAccess(k)))

SyscallTimes(k) == DropProcessor(ProcessorSyscallTimes(ProcessorExclusiveAccess(k)))

CurrentStartTime(k) == DropProcessor(ProcessorStartTime(ProcessorExclusiveAccess(k)))

AddSyscallTimes(k, id) ==
    DropProcessor(ProcessorAddSyscallTimes(ProcessorExclusiveAccess(k), id))

\* current_user_token(): the Processor guard is released when current_task()
\* returns, before the task's own guard is taken.
CurrentUserToken(k) ==
    LET k1 == CurrentTask(k)
        task == k1.last.ret[1]
    IN  IF ~Live(k1) THEN k1
        ELSE IF task = None THEN Panic(k1, "unwrap on None")
        ELSE TaskGetUserToken(k1, task)

CurrentTrapCx(k) ==
    LET k1 == CurrentTask(k)
        task == k1.last.ret[1]
    IN  IF ~Live(k1) THEN k1
        ELSE IF task = None THEN Panic(k1, "unwrap on None")
        ELSE TaskGetTrapCx(k1, task)

\* The task module's functions that syscall/process.rs imports under other
\* names: each forwards to the Processor's accessor.
GetCurrentStatus(k) == CurrentStatus(k)

GetSyscallTimes(k) == SyscallTimes(k)

GetCurrentStartTime(k) == CurrentStartTime(k)

ChangeProgramBrk(k, size) ==
    LET k1 == CurrentTask(k)
        task == k1.last.ret[1]
    IN  IF ~Live(k1) THEN k1
        ELSE IF task = None THEN Panic(k1, "unwrap on None")
        ELSE TaskChangeProgramBrk(k1, task, size)

\* schedule that switches straight into the next ready task when there is one.
Schedule_Direct(k, t, at) ==
    LET k1 == ProcessorExclusiveAccess(k)
        k2 == DropProcessor(k1)
        next == FetchTaskResult(k2)
    IN  IF ~Live(k2) THEN k2
        ELSE IF next = None THEN SwitchToIdle(k2, t, at)
        ELSE Event([FetchTask(k2) EXCEPT
                        !.pc[t] = at,
                        !.at_switch = [by |-> "schedule", proc |-> k2.proc_held,
                                       tcb |-> k2.tcb_held, loaded |-> k2.pc[next]],
                        !.cpu = next], "__switch")

\* schedule(switched_task_cx_ptr): the pointer is that of task t's context,
\* which will resume at `at`.
Schedule(k, t, at) ==
    LET k1 == ProcessorExclusiveAccess(k)
        k2 == DropProcessor(k1)
    IN  SwitchToIdle(k2, t, at)

\* -------------------------------- task manager: suspend and exit paths
SuspendCurrentAndRunNext(k, at) ==
    LET k1 == TakeCurrentTask(k)
        task == k.current
    IN  IF task = None THEN Panic(k1, "unwrap on None")
        ELSE LET k2 == InnerExclusiveAccess(k1, task)
                 k3 == SetTaskStatus(k2, task, "Ready")
                 k4 == DropInner(k3, task)
                 k5 == AddTask(k4, task)
             IN  Schedule(k5, task, at)

ExitCurrentAndRunNext(k) ==
    LET k1 == TakeCurrentTask(k)
        task == k.current
    IN  IF task = None THEN Panic(k1, "unwrap on None")
        ELSE LET k2 == InnerExclusiveAccess(k1, task)
                 k3 == SetTaskStatus(k2, task, "Exited")
                 k4 == DropInner(k3, task)
             IN  Schedule(k4, task, "exited")

\* ------------------------------------------------- syscall/process.rs
\* t is the flow that executes the syscall.
\* sys_exit that takes the suspend path instead of the exit path: the task is
\* queued again with its context saved inside sys_exit.
SysExit_Suspends(k, t) ==
    LET k1 == SuspendCurrentAndRunNext(k, "exited")
        k2 == [k1 EXCEPT !.last.ret = <<>>]
    IN  IF k2.cpu = t THEN SysExitReturned(k2) ELSE k2

\* The part of sys_exit up to the switch: nothing is returned.  The statement
\* after the call runs when the call returns: at once if the exit path comes
\* back without switching, else when the saved context is resumed (TaskResume).
SysExit(k, t) ==
    LET k1 == ExitCurrentAndRunNext(k)
        k2 == [k1 EXCEPT !.last.ret = <<>>]
    IN  IF k2.cpu = t THEN SysExitReturned(k2) ELSE k2

\* The part of sys_yield up to the switch; the 0 is returned on resumption.
SysYield(k, t) ==
    LET k1 == SuspendCurrentAndRunNext(k, "in_yield")
    IN  IF Live(k1) /\ k1.cpu = t THEN Return(k1, SysYieldResult) ELSE k1

\* prot & !0x7
ProtHighBits(prot) == prot - (prot % (PROT_MASK + 1))

\* sys_mmap without the prot == 0 test.
SysMmap_ZeroProt(k, start, len, prot, res) ==
    IF start % PAGE_SIZE # 0 THEN Return(k, -1)
    ELSE IF ProtHighBits(prot) # 0 THEN Return(k, -1)
    ELSE MmapCurrentTask(k, start, len, prot, res)

SysMmap(k, start, len, prot, res) ==
    IF start % PAGE_SIZE # 0 THEN Return(k, -1)
    ELSE IF ProtHighBits(prot) # 0 \/ prot = 0 THEN Return(k, -1)
    ELSE MmapCurrentTask(k, start, len, prot, res)

\* sys_munmap without the alignment test.
SysMunmap_Unchecked(k, start, len, res) == MunmapCurrentTask(k, start, len, res)

SysMunmap(k, start, len, res) ==
    IF start % PAGE_SIZE # 0 THEN Return(k, -1)
    ELSE MunmapCurrentTask(k, start, len, res)

\* ----------------------------------------------------- user memory (mm)
\* The page table of address space `token` maps virtual page vpn to a frame of
\* its own.
Frame(token, vpn) == vpn * (NumTasks + 1) + token

\* translated_phisical_address(token, ptr): the frame of ptr's page, at ptr's
\* offset in the page.
TranslatedPhysicalAddress(token, ptr) ==
    Frame(token, ptr \div PAGE_SIZE) * PAGE_SIZE + (ptr % PAGE_SIZE)

\* A store through a physical address, and what a load finds there afterwards.
Store(k, pa, v) ==
    IF Live(k) THEN [k EXCEPT !.last.write = Append(@, [pa |-> pa, val |-> v])] ELSE k

Load(writes, pa) ==
    LET i == CHOOSE j \in DOMAIN writes :
                 writes[j].pa = pa /\ \A l \in (j + 1)..Len(writes) : writes[l].pa # pa
    IN  writes[i].val

MICROS_PER_SEC == 1000000
MICROS_PER_MSEC == 1000

\* sys_get_time with the quotient and the remainder in each other's field.
SysGetTime_Swapped(k, ts) ==
    LET us == get_time_us(k)
        k1 == CurrentUserToken(k)
        pa == TranslatedPhysicalAddress(k1.last.ret[1], ts)
        k2 == Store(k1, pa, us % MICROS_PER_SEC)
        k3 == Store(k2, pa + WORD, us \div MICROS_PER_SEC)
    IN  IF ~Live(k1) THEN k1 ELSE Return(k3, 0)

\* sys_get_time(ts, _tz)
SysGetTime(k, ts) ==
    LET us == get_time_us(k)
        k1 == CurrentUserToken(k)
        pa == TranslatedPhysicalAddress(k1.last.ret[1], ts)
        k2 == Store(k1, pa, us \div MICROS_PER_SEC)
        k3 == Store(k2, pa + WORD, us % MICROS_PER_SEC)
    IN  IF ~Live(k1) THEN k1 ELSE Return(k3, 0)

\* A usize beyond the integers the checker computes with is written as its
\* digits in base LimbBase, most significant first.
LimbBase == 1000000

\* 2^64 = 18 446744 073709 551616
TwoTo64 == <<18, 446744, 73709, 551616>>

\* w + d for a small integer d, the carry or borrow running up the digits.
RECURSIVE WideAdd(_, _)
WideAdd(w, d) ==
    IF w = <<>> THEN <<>>
    ELSE LET n == Len(w)
             sum == w[n] + d
         IN  Append(WideAdd(SubSeq(w, 1, n - 1), sum \div LimbBase), sum % LimbBase)

\* floor((r * LimbBase^Len(w) + w) / n), by long division.
RECURSIVE WideDiv(_, _, _)
WideDiv(w, n, r) ==
    IF w = <<>> THEN <<>>
    ELSE LET cur == r * LimbBase + Head(w)
         IN  <<cur \div n>> \o WideDiv(Tail(w), n, cur % n)

\* usize subtraction a - b.  A difference below zero panics in a build with
\* overflow checks and wraps modulo 2^64 in a build without them; the wrapped
\* value is returned as its four digits.
UsizeSub(k, a, b, overflow_checks) ==
    IF ~Live(k) THEN k
    ELSE IF a >= b THEN Return(k, a - b)
    ELSE IF overflow_checks THEN Panic(k, "attempt to subtract with overflow")
    ELSE [k EXCEPT !.last.ret = WideAdd(TwoTo64, a - b)]

\* v / n for what UsizeSub has returned.
UsizeDiv(v, n) == IF Len(v) = 1 THEN v[1] \div n ELSE WideDiv(v, n, 0)

\* sys_task_info that reports the running time in microseconds.
SysTaskInfo_Micros(k, ti, overflow_checks) ==
    LET k1 == CurrentUserToken(k)
        pa == TranslatedPhysicalAddress(k1.last.ret[1], ti)
        k2 == GetCurrentStatus(k1)
        k3 == GetSyscallTimes(k2)
        now == get_time_us(k3)
        k4 == GetCurrentStartTime(k3)
        k5 == IF Live(k4) THEN UsizeSub(k4, now, k4.last.ret[1], overflow_checks) ELSE k4
        k6 == IF Live(k5)
              THEN Store(k5, pa, [status |-> k5.last.status,
                                  syscall_times |-> k5.last.times,
                                  time |-> UsizeDiv(k5.last.ret, 1)])
              ELSE k5
    IN  Return(k6, 0)

\* sys_task_info(ti), in a build with or without overflow checks.
SysTaskInfo(k, ti, overflow_checks) ==
    LET k1 == CurrentUserToken(k)
        pa == TranslatedPhysicalAddress(k1.last.ret[1], ti)
        k2 == GetCurrentStatus(k1)
        k3 == GetSyscallTimes(k2)
        now == get_time_us(k3)
        k4 == GetCurrentStartTime(k3)
        k5 == IF Live(k4) THEN UsizeSub(k4, now, k4.last.ret[1], overflow_checks) ELSE k4
        k6 == IF Live(k5)
              THEN Store(k5, pa, [status |-> k5.last.status,
                                  syscall_times |-> k5.last.times,
                                  time |-> UsizeDiv(k5.last.ret, MICROS_PER_MSEC)])
              ELSE k5
    IN  Return(k6, 0)

\* sys_sbrk that answers the break after the adjustment.
SysSbrk_NewBreak(k, size) ==
    LET k1 == ChangeProgramBrk(k, size)
    IN  IF ~Live(k1) THEN k1
        ELSE IF k1.last.ret = <<>> THEN Return(k1, -1)
        ELSE Return(k1, k1.last.ret[1] + size)

\* sys_sbrk(size)
SysSbrk(k, size) ==
    LET k1 == ChangeProgramBrk(k, size)
    IN  IF ~Live(k1) THEN k1
        ELSE IF k1.last.ret = <<>> THEN Return(k1, -1)
        ELSE Return(k1, k1.last.ret[1])

\* -------------------------------------------------------- trap path
\* Every syscall entry counts the syscall id before the body runs.
TrapSyscallEntry(k, id) == AddSyscallTimes(k, id)

\* ---------------------------------------------------------------- state
Commit(k) ==
    /\ cpu' = k.cpu
    /\ current' = k.current
    /\ idle_task_cx' = k.idle_task_cx
    /\ task_status' = k.task_status
    /\ start_time' = k.start_time
    /\ syscall_times' = k.syscall_times
    /\ program_brk' = k.program_brk
    /\ pc' = k.pc
    /\ ready_queue' = k.ready_queue
    /\ proc_held' = k.proc_held
    /\ tcb_held' = k.tcb_held
    /\ panicked' = k.panicked
    /\ at_switch' = k.at_switch
    /\ ev' = k.ev
    /\ log' = k.log
    /\ last' = k.last

\* Boot has built PROCESSOR and has handed the initial process to the task
\* manager; run_tasks is about to be entered.
Init ==
    /\ cpu = IdleFlow
    /\ current = None
    /\ idle_task_cx = "zero"
    /\ task_status = [t \in Tasks |-> "Ready"]
    /\ start_time = [t \in Tasks |-> 0]
    /\ syscall_times = [t \in Tasks |-> ZeroTimes]
    /\ program_brk = [t \in Tasks |-> HeapBottom]
    /\ pc = [t \in Tasks |-> "fresh"]
    /\ ready_queue = <<InitProc>>
    /\ proc_held = FALSE
    /\ tcb_held = {}
    /\ panicked = NoPanic
    /\ at_switch = NoSwitch
    /\ ev = <<>>
    /\ log = {}
    /\ last = Observation("boot", None, <<>>)
    /\ time = 0
    /\ invoked = [t \in Tasks |-> ZeroTimes]
    /\ interrupts = 0

Tick ==
    /\ panicked = NoPanic
    /\ time < MaxTime * TickUs
    /\ time' = time + TickUs
    /\ UNCHANGED <<cpu, current, idle_task_cx, task_status, start_time, syscall_times,
                   program_brk, pc, ready_queue, proc_held, tcb_held, panicked,
                   at_switch, ev, log, last, invoked, interrupts>>

\* One iteration of the loop of run_tasks on the idle flow, followed (when it
\* switched) by the resumption of the task it switched into.
RunTasks ==
    /\ panicked = NoPanic
    /\ cpu = IdleFlow
    /\ \E k \in {RunTasksIteration(Enter("run_tasks", None, <<>>))} :
         \E resumed \in {TaskResume(k, k.cpu)} : Commit(resumed)
    /\ UNCHANGED <<time, invoked, interrupts>>

\* The task manager creates tasks: t has no TCB yet when its flow has never
\* run and it is not in the ready queue.
NotCreated(t) ==
    pc[t] = "fresh" /\ \A i \in DOMAIN ready_queue : ready_queue[i] # t

\* Work appears: the task manager hands a new task to the ready queue
\* (add_task).  Tasks are created in the order of their ids.
TaskArrives(t) ==
    /\ panicked = NoPanic
    /\ NotCreated(t)
    /\ \A u \in Tasks : u < t => ~NotCreated(u)
    /\ Commit(AddTask(Enter("add_task", t, <<>>), t))
    /\ UNCHANGED <<time, invoked, interrupts>>

CountInvocation(t, id) == invoked' = [invoked EXCEPT ![t][id] = @ + 1]

RECURSIVE SumOver(_, _)
SumOver(S, f) ==
    IF S = {} THEN 0
    ELSE LET x == CHOOSE y \in S : TRUE IN f[x] + SumOver(S \ {x}, f)

TotalCalls == SumOver(Tasks, [t \in Tasks |-> SumOver(SyscallIds, invoked[t])])

\* The model stops taking traps (syscalls and timer interrupts) after MaxTraps.
CallsLeft == TotalCalls + interrupts < MaxTraps

InUser(t) == panicked = NoPanic /\ cpu = t /\ pc[t] = "user"

DoExit(t) ==
    /\ InUser(t) /\ CallsLeft
    /\ Commit(SysExit(TrapSyscallEntry(Enter("sys_exit", t, <<>>), "exit"), t))
    /\ CountInvocation(t, "exit")
    /\ UNCHANGED <<time, interrupts>>

DoYield(t) ==
    /\ InUser(t) /\ CallsLeft
    /\ Commit(SysYield(TrapSyscallEntry(Enter("sys_yield", t, <<>>), "yield"), t))
    /\ CountInvocation(t, "yield")
    /\ UNCHANGED <<time, interrupts>>

DoMmap(t) ==
    /\ InUser(t) /\ CallsLeft
    /\ \E start \in StartVals, len \in LenVals, prot \in ProtVals, res \in DelegateResults :
         Commit(SysMmap(TrapSyscallEntry(Enter("sys_mmap", t, <<start, len, prot>>), "mmap"),
                        start, len, prot, res))
    /\ CountInvocation(t, "mmap")
    /\ UNCHANGED <<time, interrupts>>

DoMunmap(t) ==
    /\ InUser(t) /\ CallsLeft
    /\ \E start \in StartVals, len \in LenVals, res \in DelegateResults :
         Commit(SysMunmap(TrapSyscallEntry(Enter("sys_munmap", t, <<start, len>>), "munmap"),
                          start, len, res))
    /\ CountInvocation(t, "munmap")
    /\ UNCHANGED <<time, interrupts>>

DoGetTime(t) ==
    /\ InUser(t) /\ CallsLeft
    /\ \E ts \in PtrVals :
         Commit(SysGetTime(TrapSyscallEntry(Enter("sys_get_time", t, <<ts>>), "get_time"),
                           ts))
    /\ CountInvocation(t, "get_time")
    /\ UNCHANGED <<time, interrupts>>

DoTaskInfo(t) ==
    /\ InUser(t) /\ CallsLeft
    /\ \E ti \in PtrVals, overflow_checks \in BOOLEAN :
         Commit(SysTaskInfo(TrapSyscallEntry(Enter("sys_task_info", t, <<ti>>), "task_info"),
                            ti, overflow_checks))
    /\ CountInvocation(t, "task_info")
    /\ UNCHANGED <<time, interrupts>>

DoSbrk(t) ==
    /\ InUser(t) /\ CallsLeft
    /\ \E size \in SbrkSizes :
         Commit(SysSbrk(TrapSyscallEntry(Enter("sys_sbrk", t, <<size>>), "sbrk"), size))
    /\ CountInvocation(t, "sbrk")
    /\ UNCHANGED <<time, interrupts>>

\* A timer interrupt in user mode: the trap handler suspends the current task.
TimerInterrupt(t) ==
    /\ InUser(t)
    /\ CallsLeft
    /\ Commit(SuspendCurrentAndRunNext(Enter("timer", t, <<>>), "in_timer"))
    /\ interrupts' = interrupts + 1
    /\ UNCHANGED <<time, invoked>>

\* ------------------------------------------------ calls outside a syscall
\* Kernel code calls an accessor directly.  On the idle flow no task is current;
\* on a task's flow only the accessors that read are called this way (the trap
\* path alone counts syscalls, the suspend and exit paths alone take current).
ReadAccessors ==
    {"current_task", "current_status", "syscall_times", "current_start_time",
     "current_user_token", "current_trap_cx"}

MayBeCalled(name) ==
    /\ panicked = NoPanic
    /\ \/ cpu = IdleFlow
       \/ cpu \in Tasks /\ pc[cpu] = "user" /\ name \in ReadAccessors

ReadAccessor(k, name) ==
    CASE name = "current_task" -> CurrentTask(k)
      [] name = "current_status" -> CurrentStatus(k)
      [] name = "syscall_times" -> SyscallTimes(k)
      [] name = "current_start_time" -> CurrentStartTime(k)
      [] name = "current_user_token" -> CurrentUserToken(k)
      [] name = "current_trap_cx" -> CurrentTrapCx(k)

CallRead(name) ==
    /\ MayBeCalled(name)
    /\ Commit(ReadAccessor(Enter(name, cpu, <<>>), name))
    /\ UNCHANGED <<time, invoked, interrupts>>

CallTakeCurrentTask ==
    /\ MayBeCalled("take_current_task")
    /\ Commit(TakeCurrentTask(Enter("take_current_task", cpu, <<>>)))
    /\ UNCHANGED <<time, invoked, interrupts>>

CallAddSyscallTimes(id) ==
    /\ MayBeCalled("add_syscall_times")
    /\ Commit(AddSyscallTimes(Enter("add_syscall_times", cpu, <<>>), id))
    /\ UNCHANGED <<time, invoked, interrupts>>

\* The delegates are called with arguments that pass the syscalls' validation.
AlignedStarts == {start \in StartVals : start % PAGE_SIZE = 0}

ValidProts == {prot \in ProtVals : prot # 0 /\ prot <= PROT_MASK}

CallMmapCurrentTask ==
    /\ MayBeCalled("mmap_current_task")
    /\ \E start \in AlignedStarts, len \in LenVals, prot \in ValidProts, res \in DelegateResults :
         Commit(MmapCurrentTask(Enter("mmap_current_task", cpu, <<start, len, prot>>),
                                start, len, prot, res))
    /\ UNCHANGED <<time, invoked, interrupts>>

CallMunmapCurrentTask ==
    /\ MayBeCalled("munmap_current_task")
    /\ \E start \in AlignedStarts, len \in LenVals, res \in DelegateResults :
         Commit(MunmapCurrentTask(Enter("munmap_current_task", cpu, <<start, len>>),
                                  start, len, res))
    /\ UNCHANGED <<time, invoked, interrupts>>

Next ==
    \/ Tick
    \/ \E t \in Tasks : TaskArrives(t)
    \/ RunTasks
    \/ \E t \in Tasks : DoExit(t)
    \/ \E t \in Tasks : DoYield(t)
    \/ \E t \in Tasks : DoMmap(t)
    \/ \E t \in Tasks : DoMunmap(t)
    \/ \E t \in Tasks : DoGetTime(t)
    \/ \E t \in Tasks : DoTaskInfo(t)
    \/ \E t \in Tasks : DoSbrk(t)
    \/ \E t \in Tasks : TimerInterrupt(t)
    \/ \E name \in ReadAccessors : CallRead(name)
    \/ CallTakeCurrentTask
    \/ \E id \in SyscallIds : CallAddSyscallTimes(id)
    \/ CallMmapCurrentTask
    \/ CallMunmapCurrentTask

Spec == Init /\ [][Next]_vars

\* The kernel as it runs: the idle flow executes the loop of run_tasks and
\* nothing else, so the calls outside a syscall are left out.
LoopNext ==
    \/ Tick
    \/ \E t \in Tasks : TaskArrives(t)
    \/ RunTasks
    \/ \E t \in Tasks : DoExit(t)
    \/ \E t \in Tasks : DoYield(t)
    \/ \E t \in Tasks : DoMmap(t)
    \/ \E t \in Tasks : DoMunmap(t)
    \/ \E t \in Tasks : DoGetTime(t)
    \/ \E t \in Tasks : DoTaskInfo(t)
    \/ \E t \in Tasks : DoSbrk(t)
    \/ \E t \in Tasks : TimerInterrupt(t)

\* run_tasks is a loop and the kernel runs with interrupts masked: while the
\* idle flow owns the CPU the next iteration of the loop does happen.
FairSpec == Init /\ [][LoopNext]_vars /\ WF_vars(RunTasks)

\* ======================================================================
\* Properties
\* ======================================================================

\* C1: in every reachable state the Processor's current slot is empty or refers
\* to a TCB whose status is Running, and at most one TCB is Running.
C1_CurrentIsTheOnlyRunning ==
    /\ current \in Tasks \cup {None}
    /\ current # None => task_status[current] = "Running"
    /\ \A t, u \in Tasks :
         task_status[t] = "Running" /\ task_status[u] = "Running" => t = u

\* A task is current and Running while another one, suspended in a yield, is Ready.
C1_Witness ==
    /\ current = 2 /\ task_status[2] = "Running"
    /\ task_status[1] = "Ready" /\ pc[1] = "in_yield"

\* Position of the first occurrence of event e in sequence s (0 when absent).
FirstIndex(s, e) ==
    IF \E i \in DOMAIN s : s[i] = e
    THEN CHOOSE i \in DOMAIN s : s[i] = e /\ \A j \in 1..(i - 1) : s[j] # e
    ELSE 0

\* Position of the last occurrence of event e in sequence s (0 when absent).
LastIndex(s, e) ==
    IF \E i \in DOMAIN s : s[i] = e
    THEN CHOOSE i \in DOMAIN s : s[i] = e /\ \A j \in (i + 1)..Len(s) : s[j] # e
    ELSE 0

\* C2: at every __switch call, of run_tasks and of schedule, neither the
\* Processor guard nor any TCB inner guard is held; in run_tasks the Processor
\* guard is released after current is recorded and before the switch.
C2_NoGuardAcrossSwitch ==
    /\ at_switch.proc = FALSE
    /\ at_switch.tcb = {}
    /\ FirstIndex(ev, "current.set") > 0 =>
         /\ FirstIndex(ev, "current.set") < LastIndex(ev, "PROCESSOR.drop")
         /\ LastIndex(ev, "PROCESSOR.drop") < FirstIndex(ev, "__switch")
         /\ LastIndex(ev, "PROCESSOR.borrow") < LastIndex(ev, "PROCESSOR.drop")

\* A task dispatched by run_tasks has switched back to the idle flow through
\* schedule.
C2_Witness ==
    /\ at_switch.by = "schedule"
    /\ idle_task_cx = "loaded"
    /\ cpu = IdleFlow
    /\ FirstIndex(ev, "__switch") > 0

\* C3: start_time(T) is 0 until T's first dispatch, is set there to the timer
\* value read at that dispatch, and never changes afterwards.
C3_StartTimeWrittenOnce ==
    [][\A t \in Tasks :
         /\ pc[t] = "fresh" => start_time[t] = 0
         /\ (pc[t] = "fresh" /\ pc'[t] # "fresh") => start_time'[t] = time
         /\ pc[t] # "fresh" => start_time'[t] = start_time[t]]_vars

\* C4: each counter equals the number of entries of that syscall through the
\* trap path by that task.
C4_CountersEqualInvocations ==
    \A t \in Tasks : \A i \in SyscallIds : syscall_times[t][i] = invoked[t][i]

\* Task 1 has yielded, and then task 2 has.
C4_Witness ==
    /\ invoked[1]["yield"] = 1
    /\ invoked[2]["yield"] = 1
    /\ syscall_times[1]["yield"] = 1
    /\ syscall_times[2]["yield"] = 1

\* What a syscall body may not touch: everything but the counter the trap path
\* has incremented and the observation of the call.
OnlyCounted(t, id) ==
    /\ syscall_times' = [syscall_times EXCEPT ![t][id] = @ + 1]
    /\ UNCHANGED <<cpu, current, idle_task_cx, task_status, start_time, program_brk,
                   pc, ready_queue, proc_held, tcb_held, panicked, at_switch, time>>

\* C5: sys_mmap returns -1 without invoking the task's mapping operation and
\* without changing state when start is not page-aligned or prot is 0 or has a
\* bit at position 3 or above; otherwise it returns the mapping operation's result.
C5_MmapValidation ==
    [][\A t \in Tasks :
         invoked'[t]["mmap"] # invoked[t]["mmap"] =>
           LET start == last'.args[1]
               prot == last'.args[3]
               rejected == start % PAGE_SIZE # 0 \/ prot = 0 \/ prot >= 8
           IN  /\ last'.op = "sys_mmap" /\ last'.task = t
               /\ rejected =>
                    /\ last'.ret = <<-1>>
                    /\ last'.delegate = <<>>
                    /\ OnlyCounted(t, "mmap")
               /\ ~rejected =>
                    /\ Len(last'.delegate) = 1
                    /\ last'.delegate[1].op = "mmap"
                    /\ last'.delegate[1].task = t
                    /\ last'.delegate[1].args = last'.args
                    /\ last'.ret = <<last'.delegate[1].res>>]_vars

\* sys_mmap has rejected an aligned start because of bit 3 of prot.
C5_Witness ==
    /\ last.op = "sys_mmap"
    /\ last.args = <<PAGE_SIZE, PAGE_SIZE, 8>>
    /\ last.ret = <<-1>>
    /\ last.delegate = <<>>

\* C6: sys_munmap returns -1 without invoking the task's unmapping operation
\* and without changing state when start is not page-aligned; otherwise it
\* returns the unmapping operation's result.
C6_MunmapValidation ==
    [][\A t \in Tasks :
         invoked'[t]["munmap"] # invoked[t]["munmap"] =>
           LET start == last'.args[1]
               rejected == start % PAGE_SIZE # 0
           IN  /\ last'.op = "sys_munmap" /\ last'.task = t
               /\ rejected =>
                    /\ last'.ret = <<-1>>
                    /\ last'.delegate = <<>>
                    /\ OnlyCounted(t, "munmap")
               /\ ~rejected =>
                    /\ Len(last'.delegate) = 1
                    /\ last'.delegate[1].op = "munmap"
                    /\ last'.delegate[1].task = t
                    /\ last'.delegate[1].args = last'.args
                    /\ last'.ret = <<last'.delegate[1].res>>]_vars

\* sys_munmap has rejected a misaligned start.
C6_Witness ==
    /\ last.op = "sys_munmap"
    /\ last.args = <<1, PAGE_SIZE>>
    /\ last.ret = <<-1>>
    /\ last.delegate = <<>>

PanickingAccessors ==
    {"current_status", "syscall_times", "add_syscall_times", "current_start_time"}

OptionAccessors == {"take_current_task", "current_task"}

DelegateAccessors == {"mmap_current_task", "munmap_current_task"}

\* The most recent segment was a direct accessor call with no current task.
CalledWithNoCurrent(names) == last.op \in names /\ last.task = IdleFlow

\* C7 as stated: with no current task every accessor but the two delegates
\* panics.
C7_AllButDelegatesPanic ==
    CalledWithNoCurrent(PanickingAccessors \cup OptionAccessors) => panicked # NoPanic

\* C8: once T has called exit, T never owns the CPU again, stays Exited, and
\* the code after the exit-and-reschedule call in sys_exit is not reached.
C8_ExitNeverReturns ==
    \A t \in Tasks :
        invoked[t]["exit"] > 0 =>
            /\ cpu # t
            /\ task_status[t] = "Exited"
            /\ pc[t] = "exited"
            /\ panicked # "Unreachable in sys_exit!"

\* Task 1 has exited and run_tasks has dispatched task 2 afterwards.
C8_Witness ==
    /\ invoked[1]["exit"] = 1
    /\ cpu = 2
    /\ task_status[2] = "Running"
    /\ at_switch.by = "run_tasks"

\* C9: a yield makes T Ready and hands the CPU to the idle flow; T's next
\* dispatch resumes it after its switch-out, sys_yield returns 0, and T's
\* start_time and counters are those it had at the yield.
C9_YieldResumes ==
    [][\A t \in Tasks :
         /\ (pc[t] = "user" /\ pc'[t] = "in_yield") =>
              (task_status'[t] = "Ready" /\ cpu' = IdleFlow)
         /\ pc[t] = "in_yield" =>
              /\ start_time'[t] = start_time[t]
              /\ syscall_times'[t] = syscall_times[t]
              /\ pc'[t] # "in_yield" =>
                   /\ pc'[t] = "user" /\ cpu' = t
                   /\ last'.op = "sys_yield" /\ last'.task = t
                   /\ last'.ret = <<0>>]_vars

\* C10: from its dispatch until it triggers schedule, the running task is what
\* current holds, and every read of current yields it.
C10_CurrentStableWhileRunning ==
    /\ [](\A t \in Tasks : cpu = t => current = t)
    /\ []((last.op = "current_task" /\ last.task \in Tasks) => last.ret = <<last.task>>)
    /\ [][(cpu \in Tasks /\ cpu' = cpu) => current' = current]_vars

\* Task 1, running after a yield of its own and with task 2 suspended, reads current.
C10_Witness ==
    /\ cpu = 1
    /\ last.op = "current_task"
    /\ last.ret = <<1>>
    /\ invoked[1]["yield"] = 1
    /\ pc[2] = "in_yield"

\* An iteration of run_tasks that finds the ready queue empty.
NoTaskIteration ==
    /\ ready_queue = <<>>
    /\ RunTasks

\* C11: an iteration of run_tasks that fetches no task does not abort and does
\* not stop: it logs the warning, leaves current, idle_task_cx and every TCB
\* unchanged, releases the Processor guard and is back at the top of the loop;
\* the loop goes on, so that whenever the idle flow runs and a task is in the
\* ready queue (a task that arrived after a poll that found none included),
\* the task at the head of the queue gets the CPU.
C11_IdlePollsOn ==
    /\ [][NoTaskIteration =>
            /\ panicked' = NoPanic /\ cpu' = IdleFlow
            /\ ev' = <<"PROCESSOR.borrow", "warn", "PROCESSOR.drop">>
            /\ log' = log \cup {NoTasksWarning}
            /\ proc_held' = FALSE /\ tcb_held' = {}
            /\ UNCHANGED <<current, idle_task_cx, task_status, start_time,
                           syscall_times, program_brk, pc, ready_queue>>]_vars
    /\ \A t \in Tasks :
         (cpu = IdleFlow /\ ready_queue # <<>> /\ Head(ready_queue) = t)
            ~> (cpu = t /\ current = t /\ panicked = NoPanic)

\* The initial process has exited, run_tasks has polled the empty ready queue
\* and logged the warning, task 2 was created after that and has been
\* dispatched: it is in its first run (no trap of its own, no preemption).
C11_Witness ==
    /\ cpu = 2 /\ current = 2 /\ pc[2] = "user"
    /\ last.op = "run_tasks"
    /\ log = {NoTasksWarning}
    /\ task_status[InitProc] = "Exited"
    /\ invoked[2] = ZeroTimes
    /\ interrupts = 0
    /\ panicked = NoPanic

\* C12: sys_task_info called by the current task T writes, at the translation
\* of ptr in T's address space, T's status, T's syscall counters as of the call
\* and floor((now - start_time(T)) / 1000), and returns 0; start_time(T) <= now
\* in every reachable state, so the subtraction does not underflow.
C12_TaskInfoRecord ==
    /\ [](\A t \in Tasks : start_time[t] <= time)
    /\ [][\A t \in Tasks :
            invoked'[t]["task_info"] # invoked[t]["task_info"] =>
              LET pa == TranslatedPhysicalAddress(UserToken(t), last'.args[1])
              IN  /\ last'.op = "sys_task_info" /\ last'.task = t
                  /\ panicked' = NoPanic
                  /\ last'.write =
                       <<[pa |-> pa,
                          val |-> [status |-> task_status[t],
                                   syscall_times |-> syscall_times'[t],
                                   time |-> (time - start_time[t]) \div MICROS_PER_MSEC]]>>
                  /\ last'.ret = <<0>>]_vars

\* A task dispatched at time 0 asks for its info one timer step later.
C12_Witness ==
    /\ last.op = "sys_task_info"
    /\ last.ret = <<0>>
    /\ Len(last.write) = 1
    /\ last.write[1].val.status = "Running"
    /\ last.write[1].val.time = TickUs \div MICROS_PER_MSEC
    /\ last.write[1].val.syscall_times["task_info"] = 1

\* C13: for the timer value us read at the call, the record sys_get_time has
\* written, read back through the same translation of ptr, holds
\* sec = floor(us / 1000000) and usec = us mod 1000000, and the call returns 0.
C13_GetTimeRoundTrip ==
    [][\A t \in Tasks :
         invoked'[t]["get_time"] # invoked[t]["get_time"] =>
           LET pa == TranslatedPhysicalAddress(UserToken(t), last'.args[1])
           IN  /\ last'.op = "sys_get_time" /\ last'.task = t
               /\ panicked' = NoPanic
               /\ Len(last'.write) = 2
               /\ Load(last'.write, pa) = time \div MICROS_PER_SEC
               /\ Load(last'.write, pa + WORD) = time % MICROS_PER_SEC
               /\ last'.ret = <<0>>]_vars

\* Task 2 asks for the time one timer step after boot, with a pointer to the
\* last word of a page.
C13_Witness ==
    /\ last.op = "sys_get_time"
    /\ last.task = 2
    /\ last.args = <<2 * PAGE_SIZE - WORD>>
    /\ last.ret = <<0>>
    /\ time = TickUs
    /\ Load(last.write, TranslatedPhysicalAddress(UserToken(2), last.args[1]))
         = TickUs \div MICROS_PER_SEC
    /\ Load(last.write, TranslatedPhysicalAddress(UserToken(2), last.args[1]) + WORD)
         = TickUs % MICROS_PER_SEC

\* Task t enters sys_sbrk in this step.
SbrkBy(t) == invoked'[t]["sbrk"] # invoked[t]["sbrk"]

\* Task t's sbrk of this step is sbrk(-4096) right after its own successful
\* sbrk(4096).
SbrkBackAfterForth(t) ==
    /\ SbrkBy(t)
    /\ last.op = "sys_sbrk" /\ last.task = t
    /\ last.args = <<PAGE_SIZE>> /\ last.ret # <<-1>>
    /\ last'.args = <<-PAGE_SIZE>>

\* C14 as stated: sbrk(4096) followed by sbrk(-4096) returns the original
\* break B both times and leaves the break at B.
C14_BothReturnOriginalBreak ==
    [][\A t \in Tasks :
         SbrkBackAfterForth(t) =>
           /\ last'.ret = last.ret
           /\ program_brk'[t] = last.ret[1]]_vars

\* C14 as the code has it: sbrk returns the break as it was before that call,
\* or -1 exactly when the adjustment fails (the break then stays); so for a
\* break B, sbrk(4096) returns B, the sbrk(-4096) after it returns B + 4096, and
\* the break is B again afterwards.
C14_SbrkReturnsOldBreak ==
    [][\A t \in Tasks :
         SbrkBy(t) =>
           LET size == last'.args[1]
               fails == program_brk[t] + size < HeapBottom
           IN  /\ last'.op = "sys_sbrk" /\ last'.task = t
               /\ panicked' = NoPanic
               /\ last'.ret = <<-1>> <=> fails
               /\ fails => program_brk'[t] = program_brk[t]
               /\ ~fails =>
                    /\ last'.ret = <<program_brk[t]>>
                    /\ program_brk'[t] = program_brk[t] + size
               /\ SbrkBackAfterForth(t) =>
                    /\ last'.ret = <<last.ret[1] + PAGE_SIZE>>
                    /\ program_brk'[t] = last.ret[1]
               /\ \A u \in Tasks \ {t} : program_brk'[u] = program_brk[u]]_vars

\* Task 1 has grown its heap by a page and shrunk it again.
C14_Witness ==
    /\ last.op = "sys_sbrk"
    /\ last.task = 1
    /\ last.args = <<-PAGE_SIZE>>
    /\ last.ret = <<HeapBottom + PAGE_SIZE>>
    /\ program_brk[1] = HeapBottom
    /\ invoked[1]["sbrk"] = 2

\* The Processor guard is held when event i of s happens.
ProcessorHeldAt(s, i) ==
    \E j \in 1..(i - 1) :
        s[j] = "PROCESSOR.borrow" /\ \A l \in (j + 1)..(i - 1) : s[l] # "PROCESSOR.drop"

\* Some TCB guard is taken in s while the Processor guard is held.
GuardsOverlap(s) ==
    \E i \in DOMAIN s : s[i] = "inner.borrow" /\ ProcessorHeldAt(s, i)

\* The TCB guard taken and released inside the Processor guard.
NestedGuards == <<"PROCESSOR.borrow", "inner.borrow", "inner.drop", "PROCESSOR.drop">>

\* The Processor guard released before the TCB guard is taken.
SuccessiveGuards == <<"PROCESSOR.borrow", "PROCESSOR.drop", "inner.borrow", "inner.drop">>

NestingAccessors == {"current_status", "syscall_times", "current_start_time"}

ReleasingAccessors == {"current_user_token", "current_trap_cx"}

SyscallOps ==
    {"sys_exit", "sys_yield", "sys_get_time", "sys_task_info", "sys_mmap",
     "sys_munmap", "sys_sbrk"}

\* The most recent segment is a syscall as entered through the trap path (and
\* not the dispatch that resumes a suspended one).
SyscallSegment == last.op \in SyscallOps /\ FirstIndex(ev, "current.set") = 0

\* C15 as stated: an accessor called with a current task never holds the
\* Processor guard and a TCB guard at the same time.
C15_NeverBothGuards ==
    /\ (last.op \in NestingAccessors \cup ReleasingAccessors /\ last.task \in Tasks)
         => ~GuardsOverlap(ev)
    /\ SyscallSegment => ~GuardsOverlap(ev)

\* C15 as the code has it: current_status, syscall_times, current_start_time,
\* add_syscall_times, mmap_current_task and munmap_current_task keep the
\* Processor guard for the whole call, the TCB's guard being taken and released
\* inside it; current_user_token and current_trap_cx release the Processor guard
\* before they take the TCB's guard; every accessor has released both guards
\* when it returns.
C15_AccessorGuards ==
    /\ (last.op \in NestingAccessors /\ last.task \in Tasks) => ev = NestedGuards
    /\ (last.op \in ReleasingAccessors /\ last.task \in Tasks) => ev = SuccessiveGuards
    /\ SyscallSegment =>
         /\ Len(ev) >= 4
         /\ SubSeq(ev, 1, 4) = NestedGuards
    /\ (SyscallSegment /\ last.op \in {"sys_mmap", "sys_munmap"} /\ last.delegate # <<>>)
         => ev = NestedGuards \o NestedGuards
    /\ ((last.op \in NestingAccessors \cup ReleasingAccessors \/ SyscallSegment)
          /\ panicked = NoPanic)
         => (proc_held = FALSE /\ tcb_held = {})

\* Task 1 has read its status, and the event order shows both guards held.
C15_Witness ==
    /\ last.op = "current_status"
    /\ last.task = 1
    /\ last.status = "Running"
    /\ GuardsOverlap(ev)
    /\ proc_held = FALSE /\ tcb_held = {}

\* The contexts a suspended task's task_cx can hold, and those schedule saves.
ResumableContexts == {"fresh", "in_yield", "in_timer"}

SavedBySchedule == {"in_yield", "in_timer", "exited"}

\* C16: the CPU passes only from the idle flow to a task (run_tasks: saves
\* into idle_task_cx, loads the task's context) and from a task to the idle
\* flow (schedule: saves the task's context, loads idle_task_cx, and run_tasks
\* is at the top of its loop again); never from a task to a task; switches of
\* run_tasks and of schedule alternate.
C16_SymmetricSwitches ==
    /\ [][at_switch' # at_switch => cpu' # cpu]_vars
    /\ [][cpu' # cpu =>
            IF cpu = IdleFlow
            THEN /\ cpu' \in Tasks
                 /\ at_switch.by \in {"none", "schedule"}
                 /\ at_switch'.by = "run_tasks"
                 /\ idle_task_cx' = "saved"
                 /\ at_switch'.loaded = pc[cpu']
                 /\ pc[cpu'] \in ResumableContexts
                 /\ pc'[cpu'] = "user"
            ELSE /\ cpu' = IdleFlow
                 /\ at_switch.by = "run_tasks"
                 /\ at_switch'.by = "schedule"
                 /\ at_switch'.loaded = idle_task_cx
                 /\ idle_task_cx # "zero"
                 /\ pc'[cpu] \in SavedBySchedule
                 /\ panicked' = NoPanic]_vars

\* Task 1 has been dispatched, has switched back through schedule and has been
\* dispatched again, from the context schedule saved.
C16_Witness ==
    /\ cpu = 1
    /\ at_switch.by = "run_tasks"
    /\ at_switch.loaded \in SavedBySchedule
    /\ idle_task_cx = "saved"
    /\ pc[1] = "user"

\* C17: a counter of task t changes only when t, being current, enters syscall
\* i through the trap path, and then exactly entry i grows by one; every other
\* step (dispatch, schedule, take_current, the syscall bodies, the steps of
\* other tasks) leaves every counter of t as it is; no counter ever decreases.
C17_CountersFrame ==
    [][\A t \in Tasks : \A i \in SyscallIds :
         /\ syscall_times'[t][i] >= syscall_times[t][i]
         /\ invoked'[t][i] # invoked[t][i] =>
              syscall_times'[t][i] = syscall_times[t][i] + 1
         /\ syscall_times'[t][i] # syscall_times[t][i] =>
              /\ syscall_times'[t][i] = syscall_times[t][i] + 1
              /\ current = t /\ cpu = t
              /\ invoked'[t][i] = invoked[t][i] + 1
              /\ \A j \in SyscallIds \ {i} : syscall_times'[t][j] = syscall_times[t][j]
              /\ \A u \in Tasks \ {t} : syscall_times'[u] = syscall_times[u]]_vars

\* Task 1 has counted its yield; task 2, dispatched after that, has counted a
\* sys_task_info and is running.
C17_Witness ==
    /\ syscall_times[1] = [ZeroTimes EXCEPT !["yield"] = 1]
    /\ syscall_times[2] = [ZeroTimes EXCEPT !["task_info"] = 1]
    /\ cpu = 2
    /\ last.op = "sys_task_info"

\* The panics of UPSafeCell::exclusive_access on a cell that is borrowed.
BorrowPanics == {"PROCESSOR already borrowed", "TCB inner already borrowed"}

\* The number of guard acquisitions in a sequence of events.
RECURSIVE Borrows(_)
Borrows(s) ==
    IF s = <<>> THEN 0
    ELSE (IF Head(s) \in {"PROCESSOR.borrow", "inner.borrow"} THEN 1 ELSE 0)
         + Borrows(Tail(s))

\* C18: neither the Processor guard nor a TCB guard is ever acquired while it
\* is held: the abort of a second exclusive access is unreachable.
C18_NoBorrowPanic == panicked \notin BorrowPanics

\* Task 2, dispatched after task 1 has yielded, has completed a sys_task_info:
\* ten guard acquisitions in the segment, none of a held guard.
C18_Witness ==
    /\ last.op = "sys_task_info"
    /\ last.task = 2
    /\ pc[1] = "in_yield"
    /\ Borrows(ev) = 10
    /\ panicked = NoPanic
    /\ proc_held = FALSE /\ tcb_held = {}

\* C19: when run_tasks records the fetched task as current, the slot is empty:
\* every switch back to the idle flow through schedule comes after take_current
\* of the task that gives up the CPU, in the same kernel segment.
C19_SlotEmptyAtDispatch ==
    /\ [][(cpu = IdleFlow /\ cpu' \in Tasks) =>
            /\ current = None
            /\ current' = cpu'
            /\ FirstIndex(ev', "current.set") > 0]_vars
    /\ [][(cpu \in Tasks /\ cpu' = IdleFlow) =>
            /\ current = cpu
            /\ current' = None
            /\ FirstIndex(ev', "current.take") > 0
            /\ FirstIndex(ev', "current.take") < FirstIndex(ev', "__switch")]_vars

\* Task 2 has been dispatched after task 1 has exited.
C19_Witness ==
    /\ task_status[1] = "Exited"
    /\ cpu = 2
    /\ current = 2
    /\ last.op = "run_tasks"
    /\ FirstIndex(ev, "current.set") > 0

\* C20: every switch of schedule loads an idle_task_cx that a switch of
\* run_tasks has saved and that has not been loaded since: never the
\* zero-initialized one, never one already resumed.  While a task owns the CPU
\* idle_task_cx is such a saved context.
C20_ScheduleLoadsSavedIdle ==
    /\ at_switch.by = "schedule" => at_switch.loaded = "saved"
    /\ panicked # "switch into a zero context"
    /\ cpu \in Tasks => idle_task_cx = "saved"
    /\ cpu = IdleFlow => idle_task_cx \in {"zero", "loaded"}
    /\ idle_task_cx = "zero" => at_switch.by = "none"

\* Both tasks have exited: schedule has run twice, each time loading the
\* context the dispatch before it had saved.
C20_Witness ==
    /\ \A t \in Tasks : pc[t] = "exited"
    /\ last.op = "sys_exit"
    /\ at_switch.by = "schedule"
    /\ at_switch.loaded = "saved"
    /\ idle_task_cx = "loaded"

====
